---- MODULE Spec2Model ----
(***************************************************************************)
(* GeneformerTokenizer (cellxgene_census.experimental.ml.huggingface).     *)
(*                                                                         *)
(* Two specifications over one set of variables:                           *)
(*   SpecLoad  one call of _load_geneformer_data from a fresh object; its  *)
(*             locals (genes_df, the pickled dictionaries) stay visible    *)
(*             in the state the call ends in.                              *)
(*   Spec      a tokenizer session: Init is any tokenizer the constructor  *)
(*             returns, then __enter__, and for one block of the query     *)
(*             after another _map_block and cell_item per row.  The        *)
(*             blocks of the modelled query hold one cell each.            *)
(*                                                                         *)
(* Numbers.  Raw counts are non-negative integers and the X layer stores   *)
(* only its nonzero ones.  Median expressions are modelled as integers.    *)
(* A float model_expr value  count * (10000 / median / row_sum)  is kept   *)
(* as the exact fraction [num, den]; den = 0 stands for the non-finite     *)
(* result of a division by a zero row sum.  Floating-point rounding is not *)
(* modelled.                                                               *)
(*                                                                         *)
(* Indices.  Python positions are 0-based, sequences here are 1-based: a   *)
(* var soma_joinid / model gene index k of the code is position k+1 here.  *)
(* Cell soma_joinids keep their 0-based values.                            *)
(***************************************************************************)
EXTENDS Integers, Sequences, FiniteSets, TLC

\* ---- bounds of the model ----
MaxMedian == 2         \* dictionary medians are 0..MaxMedian (0: not positive)
MaxCount == 1          \* raw X counts are 0..MaxCount
MaxInputTokens == 3    \* max_input_tokens is 0..MaxInputTokens

\* ---- program constants ----
MinModelGenes == 20000
ScaleFactor == 10000
DefaultMaxInputTokens == 2048

\* Ensembl ids known to the warehouse and to the dictionaries.
GeneIds == {"ENSG_A", "ENSG_B", "ENSG_C"}

\* The obs_column_names a caller passes: none, a metadata column, or the
\* metadata column and soma_joinid.
ObsColumnChoices == {{}, {"cell_type"}, {"soma_joinid", "cell_type"}}

\* soma_joinids of the cells of the query.  One cell stands for them all: the
\* model does not track which cells of the query have been fetched.
CellJoinids == {2}

VARIABLES
    pc,                       \* position of the tokenizer's life cycle
    max_input_tokens,         \* self.max_input_tokens
    special_token,            \* self.special_token
    obs_column_names,         \* self.obs_column_names
    model_gene_ids,           \* self.model_gene_ids (explicit part)
    model_gene_tokens,        \* self.model_gene_tokens (explicit part)
    model_gene_medians,       \* self.model_gene_medians (explicit part)
    model_gene_medians_factor,\* self.model_gene_medians_factor
    model_cls_token,          \* <<>> for None, <<t>> for token t
    model_sep_token,          \* <<>> for None, <<t>> for token t
    n_background,             \* further model genes, see BackgroundGenes
    genes_df,                 \* local of _load_geneformer_data
    gene_token_dict,          \* local of _load_geneformer_data
    gene_median_dict,         \* local of _load_geneformer_data
    gene_mapping,             \* local of _load_geneformer_data
    obs_df,                   \* self.obs_df
    zero_sum_seen,            \* history: a zero-sum row was passed to cell_item
    block_cell_joinids,       \* soma_joinids of the current block's cells
    block,                    \* _map_block's result for the current block
    next_row,                 \* next row of the block to tokenize
    items,                    \* cell_item's results for the current block
    fetched_Xblock            \* the Xblock argument of a direct _map_block call

vars == <<pc, max_input_tokens, special_token, obs_column_names,
          model_gene_ids, model_gene_tokens, model_gene_medians,
          model_gene_medians_factor, model_cls_token, model_sep_token,
          n_background, genes_df, gene_token_dict, gene_median_dict,
          gene_mapping, obs_df, zero_sum_seen, block_cell_joinids, block,
          next_row, items, fetched_Xblock>>

\* ---- helpers ----
Min(a, b) == IF a < b THEN a ELSE b

Range(s) == {s[i] : i \in DOMAIN s}

RECURSIVE SumSeq(_)
SumSeq(s) == IF s = <<>> THEN 0 ELSE Head(s) + SumSeq(Tail(s))

\* a dict with no keys
EmptyDict == [k \in {} |-> 0]

\* ---- inputs of _load_geneformer_data ----

\* The var dataframe: one row per warehouse gene, feature_id unique per row.
\* Row i of the sequence is the gene with var soma_joinid i (1-based here).
GenesDataframes ==
    {df \in [1..Cardinality(GeneIds) -> GeneIds] :
        \A i, j \in DOMAIN df : i # j => df[i] # df[j]}

\* The token of each gene id in a well-formed token dictionary.
GeneToken == ("ENSG_A" :> 1) @@ ("ENSG_B" :> 2) @@ ("ENSG_C" :> 3)

\* The two special keys of the token dictionary; their tokens lie outside
\* the gene tokens.
SpecialTokenEntries ==
    ("<cls>" :> Cardinality(GeneIds) + 1) @@ ("<sep>" :> Cardinality(GeneIds) + 2)

\* Token dictionaries: the well-formed table, or one in which a gene carries
\* the token of another, restricted to any subset of the gene ids, with or
\* without the special keys.
GeneTokenDicts ==
    LET tables == {GeneToken}
                    \cup {[GeneToken EXCEPT ![pair[1]] = GeneToken[pair[2]]] :
                            pair \in {q \in GeneIds \X GeneIds : q[1] # q[2]}}
        genes == {[g \in S |-> table[g]] : S \in SUBSET GeneIds, table \in tables}
    IN  genes \cup {d @@ SpecialTokenEntries : d \in genes}

\* Median dictionaries are keyed by the same gene ids as the token dictionary.
GeneMedianDicts(token_dict) == [DOMAIN token_dict \cap GeneIds -> 0..MaxMedian]

\* gene_mapping: None (no file; modelled as a dict with no keys, for which
\* `ensg = gene_mapping.get(ensg, ensg)` changes nothing) or a dict remapping
\* one warehouse id.
GeneMappings ==
    {EmptyDict} \cup {(pair[1] :> pair[2]) : pair \in {q \in GeneIds \X GeneIds : q[1] # q[2]}}

\* Besides the rows of genes_df above, the warehouse holds BackgroundGenes
\* further genes (var soma_joinids after those of genes_df).  Each of them is
\* a key of both dictionaries that no other row resolves to, with a token of
\* its own above the special tokens and a positive median, and no modelled
\* cell expresses it.  They are only counted: with them, two matched rows of
\* genes_df make 20,001 model genes.
BackgroundGenes == MinModelGenes - 1

\* ---- _load_geneformer_data ----

\* ensg = gene_mapping.get(ensg, ensg)
ResolveEnsg(mapping, feature_id) ==
    IF feature_id \in DOMAIN mapping THEN mapping[feature_id] ELSE feature_id

\* The four accumulators before the loop.
EmptyJoin ==
    [model_gene_id_by_ensg |-> EmptyDict,
     model_gene_ids        |-> <<>>,
     model_gene_tokens     |-> <<>>,
     model_gene_medians    |-> <<>>]

\* Variation of JoinGene: the column is recorded only when the entry is created.
JoinGeneFirstColumnOnly(acc, gene_id, ensg, token_dict, median_dict) ==
    IF ensg \in DOMAIN token_dict /\ ensg \notin DOMAIN acc.model_gene_id_by_ensg
    THEN [model_gene_id_by_ensg |->
              acc.model_gene_id_by_ensg @@ (ensg :> Len(acc.model_gene_ids) + 1),
          model_gene_ids     |-> Append(acc.model_gene_ids, <<gene_id>>),
          model_gene_tokens  |-> Append(acc.model_gene_tokens, token_dict[ensg]),
          model_gene_medians |-> Append(acc.model_gene_medians, median_dict[ensg])]
    ELSE acc

\* One iteration of the loop, for the row (gene_id, ensg) after remapping.
JoinGene(acc, gene_id, ensg, token_dict, median_dict) ==
    IF ensg \in DOMAIN token_dict
    THEN LET isnew == ensg \notin DOMAIN acc.model_gene_id_by_ensg
             by_ensg == IF isnew
                        THEN acc.model_gene_id_by_ensg
                                 @@ (ensg :> Len(acc.model_gene_ids) + 1)
                        ELSE acc.model_gene_id_by_ensg
             ids == IF isnew THEN Append(acc.model_gene_ids, <<>>)
                             ELSE acc.model_gene_ids
         IN  [model_gene_id_by_ensg |-> by_ensg,
              model_gene_ids     |->
                  [ids EXCEPT ![by_ensg[ensg]] = Append(@, gene_id)],
              model_gene_tokens  |->
                  IF isnew THEN Append(acc.model_gene_tokens, token_dict[ensg])
                           ELSE acc.model_gene_tokens,
              model_gene_medians |->
                  IF isnew THEN Append(acc.model_gene_medians, median_dict[ensg])
                           ELSE acc.model_gene_medians]
    ELSE acc

\* for gene_id, row in genes_df.iterrows(): rows 1..n in order.
RECURSIVE JoinRows(_, _, _, _, _)
JoinRows(df, n, mapping, token_dict, median_dict) ==
    IF n = 0 THEN EmptyJoin
    ELSE JoinGene(JoinRows(df, n - 1, mapping, token_dict, median_dict),
                  n, ResolveEnsg(mapping, df[n]), token_dict, median_dict)

\* Variation of LoadAssertionsHold: the coverage test admits exactly 20,000.
LoadAssertionsAtLeast(ids, tokens, medians, background) ==
    /\ Len(ids) = Len(tokens)
    /\ Len(ids) = Len(medians)
    /\ Cardinality(Range(tokens)) = Len(tokens)
    /\ \A i \in DOMAIN medians : medians[i] > 0
    /\ Len(ids) + background >= MinModelGenes

\* The five assertions after the loop.  The background genes add one entry,
\* one new token and one positive median each.
LoadAssertionsHold(ids, tokens, medians, background) ==
    /\ Len(ids) = Len(tokens)
    /\ Len(ids) = Len(medians)
    /\ Cardinality(Range(tokens)) = Len(tokens)
    /\ \A i \in DOMAIN medians : medians[i] > 0
    /\ Len(ids) + background > MinModelGenes

\* 10_000.0 / self.model_gene_medians, one exact fraction per entry.
MediansFactor(medians) ==
    [i \in DOMAIN medians |-> [num |-> ScaleFactor, den |-> medians[i]]]

\* The whole function: what it leaves in self, and whether it returned
\* ("loaded") or raised ("failed": an assertion, or a KeyError on a special key).
LoadGeneformerData(df, token_dict, median_dict, mapping, background, special) ==
    LET join == JoinRows(df, Len(df), mapping, token_dict, median_dict)
        asserted == LoadAssertionsHold(join.model_gene_ids, join.model_gene_tokens,
                                       join.model_gene_medians, background)
        has_cls == "<cls>" \in DOMAIN token_dict
        has_sep == "<sep>" \in DOMAIN token_dict
        ok == asserted /\ (special => has_cls /\ has_sep)
    IN  [pc |-> IF ok THEN "loaded" ELSE "failed",
         n_background       |-> background,
         model_gene_ids     |-> join.model_gene_ids,
         model_gene_tokens  |-> join.model_gene_tokens,
         model_gene_medians |-> join.model_gene_medians,
         model_gene_medians_factor |->
             IF asserted THEN MediansFactor(join.model_gene_medians) ELSE <<>>,
         model_cls_token |->
             IF asserted /\ special /\ has_cls THEN <<token_dict["<cls>"]>> ELSE <<>>,
         model_sep_token |->
             IF ok /\ special THEN <<token_dict["<sep>"]>> ELSE <<>>]

\* ---- SpecLoad: one call of _load_geneformer_data ----

\* __init__ up to the call, with the default max_input_tokens and
\* obs_column_names.
InitLoad ==
    /\ pc = "new"
    /\ max_input_tokens = DefaultMaxInputTokens
    /\ special_token \in BOOLEAN
    /\ obs_column_names = {}
    /\ model_gene_ids = <<>>
    /\ model_gene_tokens = <<>>
    /\ model_gene_medians = <<>>
    /\ model_gene_medians_factor = <<>>
    /\ model_cls_token = <<>>
    /\ model_sep_token = <<>>
    /\ n_background = 0
    /\ genes_df = <<>>
    /\ gene_token_dict = EmptyDict
    /\ gene_median_dict = EmptyDict
    /\ gene_mapping = EmptyDict
    /\ obs_df = EmptyDict
    /\ zero_sum_seen = FALSE
    /\ block_cell_joinids = <<>>
    /\ block = <<>>
    /\ next_row = 0
    /\ items = <<>>
    /\ fetched_Xblock = <<>>

LoadData ==
    /\ pc = "new"
    /\ \E df \in GenesDataframes, token_dict \in GeneTokenDicts,
          mapping \in GeneMappings :
         \E median_dict \in GeneMedianDicts(token_dict) :
           LET r == LoadGeneformerData(df, token_dict, median_dict, mapping,
                                       BackgroundGenes, special_token)
           IN  /\ pc' = r.pc
               /\ model_gene_ids' = r.model_gene_ids
               /\ model_gene_tokens' = r.model_gene_tokens
               /\ model_gene_medians' = r.model_gene_medians
               /\ model_gene_medians_factor' = r.model_gene_medians_factor
               /\ model_cls_token' = r.model_cls_token
               /\ model_sep_token' = r.model_sep_token
               /\ n_background' = r.n_background
               /\ genes_df' = df
               /\ gene_token_dict' = token_dict
               /\ gene_median_dict' = median_dict
               /\ gene_mapping' = mapping
    /\ UNCHANGED <<max_input_tokens, special_token, obs_column_names, obs_df,
                   zero_sum_seen, block_cell_joinids, block, next_row, items,
                   fetched_Xblock>>

NextLoad == LoadData

SpecLoad == InitLoad /\ [][NextLoad]_vars

\* ---- sparse matrices ----
\* A csr/coo matrix is [shape |-> <<rows, columns>>, rows |-> one sequence of
\* stored entries [col, data] per row, in ascending column order].

\* The raw X block of a dense table of counts: the explicit warehouse columns
\* followed by the background columns; only nonzero counts are stored.
RECURSIVE StoredEntries(_, _)
StoredEntries(counts, n) ==
    IF n = 0 THEN <<>>
    ELSE LET before == StoredEntries(counts, n - 1)
         IN  IF counts[n] # 0
             THEN Append(before, [col |-> n, data |-> counts[n]])
             ELSE before

CsrFromCounts(dense, background) ==
    [shape |-> <<Len(dense), Cardinality(GeneIds) + background>>,
     rows  |-> [i \in DOMAIN dense |-> StoredEntries(dense[i], Len(dense[i]))]]

\* The dense tables of counts a one-cell block may hold.
CountBlocks == [1..1 -> [1..Cardinality(GeneIds) -> 0..MaxCount]]

\* ---- _map_block ----

\* Variation of ModelGeneCount: the sum of several columns is kept as a stored
\* value even when it is zero.
ModelGeneCountStoringZeros(row, j, cols) ==
    IF Len(cols) > 1
    THEN LET picked == SelectSeq(row, LAMBDA e : e.col \in Range(cols))
             total == SumSeq([k \in DOMAIN picked |-> picked[k].data])
         IN  <<[col |-> j, data |-> total]>>
    ELSE LET picked == SelectSeq(row, LAMBDA e : e.col = cols[1])
         IN  [k \in DOMAIN picked |-> [col |-> j, data |-> picked[k].data]]

\* One row of one element of model_gene_counts: the stored entries of model
\* gene j (warehouse columns cols) for a row of Xblock.
ModelGeneCount(row, j, cols) ==
    IF Len(cols) > 1
    THEN \* csc_matrix(Xblock[:, cols].sum(axis=1)): built from a dense
         \* column, which stores the nonzero sums only
         LET picked == SelectSeq(row, LAMBDA e : e.col \in Range(cols))
             total == SumSeq([k \in DOMAIN picked |-> picked[k].data])
         IN  IF total # 0 THEN <<[col |-> j, data |-> total]>> ELSE <<>>
    ELSE \* Xblock[:, cols[0]].tocsc(): the column's stored entries
         LET picked == SelectSeq(row, LAMBDA e : e.col = cols[1])
         IN  [k \in DOMAIN picked |-> [col |-> j, data |-> picked[k].data]]

\* scipy.sparse.hstack of the first n per-gene columns, for one row.
RECURSIVE HstackRow(_, _, _)
HstackRow(row, ids, n) ==
    IF n = 0 THEN <<>>
    ELSE HstackRow(row, ids, n - 1) \o ModelGeneCount(row, n, ids[n])

\* The background genes follow the explicit ones and store nothing.
MapBlock(Xblock) ==
    [shape |-> <<Xblock.shape[1], Len(model_gene_ids) + n_background>>,
     rows  |-> [i \in DOMAIN Xblock.rows |->
                   HstackRow(Xblock.rows[i], model_gene_ids, Len(model_gene_ids))]]

\* ---- cell_item ----

\* Variation of DivideBySum: a division that raises on a zero divisor.
DivideBySumRaising(factor, row_sum) ==
    [raised |-> row_sum = 0,
     value  |-> [i \in DOMAIN factor |->
                    [num |-> factor[i].num, den |-> factor[i].den * row_sum]]]

\* self.model_gene_medians_factor / cell_Xrow.sum(): numpy division, which
\* yields a non-finite value (den = 0) for a zero sum and does not raise.
DivideBySum(factor, row_sum) ==
    [raised |-> FALSE,
     value  |-> [i \in DOMAIN factor |->
                    [num |-> factor[i].num, den |-> factor[i].den * row_sum]]]

\* cell_Xrow.multiply(dense): the coo entries of the row, each stored value
\* times the dense value of its column.
Multiply(entries, dense) ==
    [k \in DOMAIN entries |->
        [col  |-> entries[k].col,
         data |-> [num |-> entries[k].data * dense[entries[k].col].num,
                   den |-> dense[entries[k].col].den]]]

\* -x
Negate(x) == [num |-> 0 - x.num, den |-> x.den]

\* x <= y for fractions with positive denominators
FracLeq(x, y) == x.num * y.den <= y.num * x.den

\* Variation of Argsort: descending order.
ArgsortDescending(a) ==
    {p \in [DOMAIN a -> DOMAIN a] :
        /\ \A i, j \in DOMAIN a : i # j => p[i] # p[j]
        /\ \A i, j \in DOMAIN a : i < j => FracLeq(a[p[j]], a[p[i]])}

\* np.argsort(a) with the default (unstable) kind: any permutation of the
\* positions that puts the values in ascending order.
Argsort(a) ==
    {p \in [DOMAIN a -> DOMAIN a] :
        /\ \A i, j \in DOMAIN a : i # j => p[i] # p[j]
        /\ \A i, j \in DOMAIN a : i < j => FracLeq(a[p[i]], a[p[j]])}

\* Variation of SliceTo: one element too many.
SliceToInclusive(s, k) ==
    IF k >= 0 THEN SubSeq(s, 1, Min(k + 1, Len(s)))
    ELSE SubSeq(s, 1, Len(s) + k + 1)

\* s[:k]
SliceTo(s, k) ==
    IF k >= 0 THEN SubSeq(s, 1, Min(k, Len(s)))
    ELSE SubSeq(s, 1, Len(s) + k)

\* s[:-1]
DropLast(s) == SubSeq(s, 1, Len(s) - 1)

\* Variation of AffixSpecialTokens: the second trim is missing.
AffixTrimOnce(input_ids, max_tokens, cls, sep) ==
    LET trimmed == IF Len(input_ids) = max_tokens THEN DropLast(input_ids)
                   ELSE input_ids
    IN  Append(<<cls>> \o trimmed, sep)

\* Variation of AffixSpecialTokens: the second trim comes after the separator.
AffixTrimAfterSeparator(input_ids, max_tokens, cls, sep) ==
    LET trimmed  == IF Len(input_ids) = max_tokens THEN DropLast(input_ids)
                    ELSE input_ids
        with_sep == Append(<<cls>> \o trimmed, sep)
    IN  IF Len(with_sep) > max_tokens THEN DropLast(with_sep) ELSE with_sep

\* The special_token branch.
AffixSpecialTokens(input_ids, max_tokens, cls, sep) ==
    LET trimmed  == IF Len(input_ids) = max_tokens THEN DropLast(input_ids)
                    ELSE input_ids
        with_cls == <<cls>> \o trimmed
        retrimmed == IF Len(with_cls) = max_tokens THEN DropLast(with_cls)
                     ELSE with_cls
    IN  Append(retrimmed, sep)

\* Variation of ObsAttributes: soma_joinid is added whether requested or not.
ObsAttributesWithJoinid(cell_joinid) ==
    [attr \in obs_column_names \cup {"soma_joinid"} |->
        IF attr # "soma_joinid" THEN obs_df[cell_joinid][attr] ELSE cell_joinid]

\* The requested obs attributes of the item.
ObsAttributes(cell_joinid) ==
    [attr \in obs_column_names |->
        IF attr # "soma_joinid" THEN obs_df[cell_joinid][attr] ELSE cell_joinid]

\* Every outcome of cell_item(cell_joinid, cell_Xrow): [raised |-> TRUE] for an
\* exception, else the returned dict.
CellItem(cell_joinid, cell_Xrow) ==
    LET entries == cell_Xrow.rows[1]
        row_sum == SumSeq([k \in DOMAIN entries |-> entries[k].data])
        shape_ok == cell_Xrow.shape = <<1, Len(model_gene_ids) + n_background>>
        divided == DivideBySum(model_gene_medians_factor, row_sum)
        model_expr == Multiply(entries, divided.value)
        negated == [k \in DOMAIN model_expr |-> Negate(model_expr[k].data)]
    IN  IF ~shape_ok \/ divided.raised
           \/ (special_token /\ (model_cls_token = <<>> \/ model_sep_token = <<>>))
        THEN {[raised |-> TRUE]}
        ELSE {LET picked == SliceTo(order, max_input_tokens)
                  token_order == [k \in DOMAIN picked |-> model_expr[picked[k]].col]
                  gene_tokens == [k \in DOMAIN token_order |->
                                     model_gene_tokens[token_order[k]]]
                  input_ids == IF special_token
                               THEN AffixSpecialTokens(gene_tokens, max_input_tokens,
                                        model_cls_token[1], model_sep_token[1])
                               ELSE gene_tokens
              IN  [raised |-> FALSE,
                   ans |-> [input_ids |-> input_ids, length |-> Len(input_ids)]
                               @@ ObsAttributes(cell_joinid)]
              : order \in Argsort(negated)}

\* ---- the warehouse's obs table ----
CellTypeOf(cell_joinid) ==
    IF cell_joinid % 2 = 0 THEN "CL:0000084" ELSE "CL:0000236"

\* self.obs(column_names=...).concat().to_pandas().set_index("soma_joinid"):
\* one row per cell of the query, keyed by soma_joinid, holding the other
\* requested columns.
ReadObs(column_names) ==
    [j \in CellJoinids |->
        [c \in column_names \ {"soma_joinid"} |-> CellTypeOf(j)]]

\* ---- Spec: a tokenizer session ----

\* The tokenizers _load_geneformer_data returns normally for, given a
\* well-formed token dictionary.
LoadedTokenizers(special) ==
    {t \in UNION {UNION {
            {LoadGeneformerData(df, token_dict, median_dict, mapping,
                                BackgroundGenes, special) :
                 df \in GenesDataframes, mapping \in GeneMappings}
            : median_dict \in GeneMedianDicts(token_dict)}
          : token_dict \in {d \in GeneTokenDicts :
                               \A g \in DOMAIN d \cap GeneIds : d[g] = GeneToken[g]}} :
        t.pc = "loaded"}

\* The state __init__ returns in; the locals of _load_geneformer_data are gone.
Init ==
    /\ pc = "constructed"
    /\ special_token \in BOOLEAN
    /\ \E t \in LoadedTokenizers(special_token) :
         /\ model_gene_ids = t.model_gene_ids
         /\ model_gene_tokens = t.model_gene_tokens
         /\ model_gene_medians = t.model_gene_medians
         /\ model_gene_medians_factor = t.model_gene_medians_factor
         /\ model_cls_token = t.model_cls_token
         /\ model_sep_token = t.model_sep_token
         /\ n_background = t.n_background
    /\ max_input_tokens \in 0..MaxInputTokens
    /\ obs_column_names \in ObsColumnChoices
    /\ genes_df = <<>>
    /\ gene_token_dict = EmptyDict
    /\ gene_median_dict = EmptyDict
    /\ gene_mapping = EmptyDict
    /\ obs_df = EmptyDict
    /\ zero_sum_seen = FALSE
    /\ block_cell_joinids = <<>>
    /\ block = <<>>
    /\ next_row = 0
    /\ items = <<>>
    /\ fetched_Xblock = <<>>

\* __enter__
Enter ==
    /\ pc = "constructed"
    /\ LET column_names == IF "soma_joinid" \notin obs_column_names
                           THEN obs_column_names \cup {"soma_joinid"}
                           ELSE obs_column_names
       IN  obs_df' = ReadObs(column_names)
    /\ pc' = "entered"
    /\ UNCHANGED <<max_input_tokens, special_token, obs_column_names,
                   model_gene_ids, model_gene_tokens, model_gene_medians,
                   model_gene_medians_factor, model_cls_token, model_sep_token,
                   n_background, genes_df, gene_token_dict, gene_median_dict,
                   gene_mapping, zero_sum_seen, block_cell_joinids, block,
                   next_row, items,
                   fetched_Xblock>>

\* The builder fetches the next block of the query and projects it.
MapNextBlock ==
    /\ pc = "entered"
    /\ \E counts \in CountBlocks :
         block' = MapBlock(CsrFromCounts(counts, n_background))
    /\ \E cell_joinid \in CellJoinids :
         block_cell_joinids' = <<cell_joinid>>
    /\ next_row' = 1
    /\ items' = <<>>
    /\ pc' = "block"
    /\ UNCHANGED <<max_input_tokens, special_token, obs_column_names,
                   model_gene_ids, model_gene_tokens, model_gene_medians,
                   model_gene_medians_factor, model_cls_token, model_sep_token,
                   n_background, genes_df, gene_token_dict, gene_median_dict,
                   gene_mapping, obs_df, zero_sum_seen,
                   fetched_Xblock>>

\* The builder passes the next row of the block to cell_item.
TokenizeCell ==
    /\ pc = "block"
    /\ next_row <= Len(block.rows)
    /\ \E out \in CellItem(block_cell_joinids[next_row],
                           [shape |-> <<1, block.shape[2]>>,
                            rows  |-> <<block.rows[next_row]>>]) :
         IF out.raised
         THEN /\ pc' = "aborted"
              /\ UNCHANGED <<items, next_row>>
         ELSE /\ pc' = pc
              /\ items' = Append(items, out.ans)
              /\ next_row' = next_row + 1
    /\ zero_sum_seen' =
         (zero_sum_seen
              \/ SumSeq([k \in DOMAIN block.rows[next_row] |->
                             block.rows[next_row][k].data]) = 0)
    /\ UNCHANGED <<max_input_tokens, special_token, obs_column_names,
                   model_gene_ids, model_gene_tokens, model_gene_medians,
                   model_gene_medians_factor, model_cls_token, model_sep_token,
                   n_background, genes_df, gene_token_dict, gene_median_dict,
                   gene_mapping, obs_df, block_cell_joinids, block,
                   fetched_Xblock>>

\* The builder is done with the block and its items and goes on to fetch the
\* next one.
FinishBlock ==
    /\ pc = "block"
    /\ next_row > Len(block.rows)
    /\ pc' = "entered"
    /\ block_cell_joinids' = <<>>
    /\ block' = <<>>
    /\ next_row' = 0
    /\ items' = <<>>
    /\ UNCHANGED <<max_input_tokens, special_token, obs_column_names,
                   model_gene_ids, model_gene_tokens, model_gene_medians,
                   model_gene_medians_factor, model_cls_token, model_sep_token,
                   n_background, genes_df, gene_token_dict, gene_median_dict,
                   gene_mapping, obs_df, zero_sum_seen,
                   fetched_Xblock>>

Next == Enter \/ MapNextBlock \/ TokenizeCell \/ FinishBlock

Spec == Init /\ [][Next]_vars

\* ---- SpecMap: _map_block called on a block of two cells ----

\* block_cell_joinids of the call; _map_block does not read them.
MapBlockCellJoinids == <<1, 2>>

\* The dense tables of counts of a block of Len(MapBlockCellJoinids) cells.
MapCountBlocks ==
    [DOMAIN MapBlockCellJoinids -> [1..Cardinality(GeneIds) -> 0..MaxCount]]

\* A constructed tokenizer and the X block of the coming call.
InitMap ==
    /\ pc = "constructed"
    /\ special_token \in BOOLEAN
    /\ \E t \in LoadedTokenizers(special_token) :
         /\ model_gene_ids = t.model_gene_ids
         /\ model_gene_tokens = t.model_gene_tokens
         /\ model_gene_medians = t.model_gene_medians
         /\ model_gene_medians_factor = t.model_gene_medians_factor
         /\ model_cls_token = t.model_cls_token
         /\ model_sep_token = t.model_sep_token
         /\ n_background = t.n_background
    /\ \E counts \in MapCountBlocks :
         fetched_Xblock = CsrFromCounts(counts, n_background)
    /\ block_cell_joinids = MapBlockCellJoinids
    /\ max_input_tokens = DefaultMaxInputTokens
    /\ obs_column_names = {}
    /\ genes_df = <<>>
    /\ gene_token_dict = EmptyDict
    /\ gene_median_dict = EmptyDict
    /\ gene_mapping = EmptyDict
    /\ obs_df = EmptyDict
    /\ zero_sum_seen = FALSE
    /\ block = <<>>
    /\ next_row = 0
    /\ items = <<>>

\* _map_block(block_cell_joinids, Xblock)
MapBlockCall ==
    /\ pc = "constructed"
    /\ fetched_Xblock # <<>>
    /\ block' = MapBlock(fetched_Xblock)
    /\ pc' = "mapped"
    /\ UNCHANGED <<max_input_tokens, special_token, obs_column_names,
                   model_gene_ids, model_gene_tokens, model_gene_medians,
                   model_gene_medians_factor, model_cls_token, model_sep_token,
                   n_background, genes_df, gene_token_dict, gene_median_dict,
                   gene_mapping, obs_df, zero_sum_seen, block_cell_joinids,
                   next_row, items, fetched_Xblock>>

NextMap == MapBlockCall

SpecMap == InitMap /\ [][NextMap]_vars

\* ---- properties of cell_item (Spec) ----

\* The projected row item i of the current block was computed from.
ItemRow(i) == block.rows[i]

\* The stored entries of a row with a nonzero count: the cell's detected genes.
Detected(row) == {row[k] : k \in {m \in DOMAIN row : row[m].data # 0}}

RowSum(row) == SumSeq([k \in DOMAIN row |-> row[k].data])

\* count x 10000 / median / row sum of entry a is >= (resp. >) that of entry
\* b, for a positive row sum and positive medians, by cross-multiplication.
NormalizedGeq(row, a, b) ==
    a.data * ScaleFactor * (model_gene_medians[b.col] * RowSum(row))
        >= b.data * ScaleFactor * (model_gene_medians[a.col] * RowSum(row))

NormalizedGreater(row, a, b) ==
    a.data * ScaleFactor * (model_gene_medians[b.col] * RowSum(row))
        > b.data * ScaleFactor * (model_gene_medians[a.col] * RowSum(row))

TokenOf(e) == model_gene_tokens[e.col]

Positions(ids, token) == {k \in DOMAIN ids : ids[k] = token}

\* tokens is the token sequence of the k highest-ranked detected genes of row.
IsTopRanked(tokens, row, k) ==
    /\ Len(tokens) = k
    /\ \A p, q \in DOMAIN tokens : p # q => tokens[p] # tokens[q]
    /\ \A p \in DOMAIN tokens : \E e \in Detected(row) : TokenOf(e) = tokens[p]
    /\ \A a, b \in Detected(row) :
         \A p \in Positions(tokens, TokenOf(a)) :
            /\ \A q \in Positions(tokens, TokenOf(b)) :
                  p < q => NormalizedGeq(row, a, b)
            /\ Positions(tokens, TokenOf(b)) = {} => NormalizedGeq(row, a, b)

\* C1: every token sequence cell_item returns has length <= max_input_tokens,
\* for every max_input_tokens and either setting of special_token.
C1_LengthWithinMax ==
    \A i \in DOMAIN items : Len(items[i].input_ids) <= max_input_tokens

\* C2 as stated: with special_token enabled every returned sequence starts
\* with the class token and ends with the separator token, whatever
\* max_input_tokens is.
C2_BracketedForEveryMax ==
    special_token =>
        \A i \in DOMAIN items :
            /\ Len(items[i].input_ids) >= 2
            /\ items[i].input_ids[1] = model_cls_token[1]
            /\ items[i].input_ids[Len(items[i].input_ids)] = model_sep_token[1]

\* C2 amended: with special_token enabled and max_input_tokens other than 1,
\* every returned sequence starts with the class token and ends with the
\* separator token; with max_input_tokens = 1 it is the separator token alone.
C2_BracketedUnlessMaxIsOne ==
    special_token =>
        \A i \in DOMAIN items :
            IF max_input_tokens = 1
            THEN items[i].input_ids = <<model_sep_token[1]>>
            ELSE /\ Len(items[i].input_ids) >= 2
                 /\ items[i].input_ids[1] = model_cls_token[1]
                 /\ items[i].input_ids[Len(items[i].input_ids)] = model_sep_token[1]

\* A cell with at least max_input_tokens >= 2 detected genes was tokenized
\* with special tokens: both trims happened.
C2_Witness ==
    /\ special_token
    /\ max_input_tokens >= 2
    /\ \E i \in DOMAIN items :
         /\ Len(ItemRow(i)) >= max_input_tokens
         /\ Len(items[i].input_ids) = max_input_tokens

\* C3: for two detected genes whose tokens both appear in input_ids, the one
\* with the strictly greater normalized value comes first.
C3_RankOrder ==
    \A i \in DOMAIN items :
        \A a, b \in Detected(ItemRow(i)) :
            \A p \in Positions(items[i].input_ids, TokenOf(a)),
               q \in Positions(items[i].input_ids, TokenOf(b)) :
                NormalizedGreater(ItemRow(i), a, b) => p < q

\* An item holds the tokens of two genes in the reverse of their column
\* order: the later column has the strictly greater normalized value.
C3_Witness ==
    \E i \in DOMAIN items :
        \E a, b \in Detected(ItemRow(i)) :
            /\ a.col < b.col
            /\ NormalizedGreater(ItemRow(i), b, a)
            /\ Positions(items[i].input_ids, TokenOf(a)) # {}
            /\ Positions(items[i].input_ids, TokenOf(b)) # {}

\* C4: no record is returned for a cell whose projected row sums to zero.
C4_ZeroSumCellExcluded ==
    \A i \in DOMAIN items : RowSum(ItemRow(i)) # 0

\* C5 as stated: every returned record has a soma_joinid field, requested or
\* not, holding the cell_joinid passed to cell_item.
C5_JoinidAlwaysPresent ==
    \A i \in DOMAIN items :
        /\ "soma_joinid" \in DOMAIN items[i]
        /\ items[i]["soma_joinid"] = block_cell_joinids[i]

\* C5 amended: a returned record has a soma_joinid field exactly when
\* soma_joinid is listed in obs_column_names, and the field then holds the
\* cell_joinid passed to cell_item.
C5_JoinidWhenRequested ==
    \A i \in DOMAIN items :
        /\ "soma_joinid" \in DOMAIN items[i] <=> "soma_joinid" \in obs_column_names
        /\ "soma_joinid" \in DOMAIN items[i] =>
               items[i]["soma_joinid"] = block_cell_joinids[i]

\* A cell whose soma_joinid differs from its row position was tokenized with
\* soma_joinid and another column requested.
C5_Witness ==
    /\ obs_column_names = {"soma_joinid", "cell_type"}
    /\ Len(items) = 1
    /\ block_cell_joinids[1] # 1
    /\ items[1]["soma_joinid"] = block_cell_joinids[1]
    /\ items[1]["cell_type"] = CellTypeOf(block_cell_joinids[1])

\* C7: a zero-sum cell does not abort the batch: no call of cell_item raises,
\* every row passed so far has its item, and each item is a result of
\* cell_item for its own row alone.
C7_ZeroSumCellIsolated ==
    /\ pc # "aborted"
    /\ pc = "block" =>
         /\ Len(items) = next_row - 1
         /\ \A i \in DOMAIN items :
              [raised |-> FALSE, ans |-> items[i]]
                  \in CellItem(block_cell_joinids[i],
                               [shape |-> <<1, block.shape[2]>>,
                                rows  |-> <<ItemRow(i)>>])

\* After a zero-sum cell a cell with detected genes was tokenized and has
\* its tokens.
C7_Witness ==
    /\ pc = "block"
    /\ zero_sum_seen
    /\ Len(items) = 1
    /\ RowSum(ItemRow(1)) > 0
    /\ \E e \in Detected(ItemRow(1)) :
          Positions(items[1].input_ids, TokenOf(e)) # {}

\* C8: with special_token enabled and max_input_tokens >= 2 the output is
\* [class] + the top min(n, max_input_tokens - 2) ranked gene tokens +
\* [separator], n being the number of detected genes.
C8_SpecialTokenOutput ==
    (special_token /\ max_input_tokens >= 2) =>
        \A i \in DOMAIN items :
            LET ids == items[i].input_ids
                k == Min(Len(ItemRow(i)), max_input_tokens - 2)
            IN  /\ Len(ids) = k + 2
                /\ ids[1] = model_cls_token[1]
                /\ ids[Len(ids)] = model_sep_token[1]
                /\ IsTopRanked(SubSeq(ids, 2, Len(ids) - 1), ItemRow(i), k)

\* Ranked gene tokens of length max_input_tokens = 2 came out as
\* [class, separator].
C8_Witness ==
    /\ special_token
    /\ max_input_tokens = 2
    /\ \E i \in DOMAIN items :
         /\ Len(ItemRow(i)) = 2
         /\ items[i].input_ids = <<model_cls_token[1], model_sep_token[1]>>

\* C9: with special_token disabled and a nonzero row sum, input_ids is the
\* tokens of the top min(n, max_input_tokens) detected genes, each gene once
\* and none with a zero count, and length is the number of tokens.
C9_PlainOutput ==
    ~special_token =>
        \A i \in DOMAIN items :
            RowSum(ItemRow(i)) # 0 =>
                /\ IsTopRanked(items[i].input_ids, ItemRow(i),
                               Min(Cardinality(Detected(ItemRow(i))), max_input_tokens))
                /\ items[i].length = Len(items[i].input_ids)

\* A cell with two detected genes of different normalized value was cut to
\* one token.
C9_Witness ==
    /\ ~special_token
    /\ max_input_tokens = 1
    /\ \E i \in DOMAIN items :
         /\ \E a, b \in Detected(ItemRow(i)) : NormalizedGreater(ItemRow(i), a, b)
         /\ Len(items[i].input_ids) = 1
         /\ items[i].length = 1

\* ---- properties of _load_geneformer_data (SpecLoad) ----

Returned == pc \in {"loaded", "failed"}

\* C6: the load returns normally only if the tokens are pairwise distinct,
\* every median is strictly positive and there are more than 20,000 entries;
\* if one of these fails it raises.
C6_LoadPostconditions ==
    LET distinct == \A k, l \in DOMAIN model_gene_tokens :
                        k # l => model_gene_tokens[k] # model_gene_tokens[l]
        positive == \A k \in DOMAIN model_gene_medians : model_gene_medians[k] > 0
        covered  == Len(model_gene_ids) + n_background > MinModelGenes
    IN  /\ pc = "loaded" => distinct /\ positive /\ covered
        /\ (Returned /\ ~(distinct /\ positive /\ covered)) => pc = "failed"

\* A load that passed with exactly 20,001 entries.
C6_Witness ==
    /\ pc = "loaded"
    /\ Len(model_gene_ids) + n_background = MinModelGenes + 1
    /\ Len(model_gene_ids) = 2

\* The identifier warehouse column i resolves to.
Resolved(i) == ResolveEnsg(gene_mapping, genes_df[i])

\* C10: one entry per distinct resolved identifier found in the token
\* dictionary, in order of first occurrence; every column whose identifier is
\* in the dictionary is in exactly one entry, the others in none; the columns
\* of an entry are in iteration order and there is at least one.
C10_EntriesPerIdentifier ==
    Returned =>
        LET matched == {i \in DOMAIN genes_df : Resolved(i) \in DOMAIN gene_token_dict}
            entries == DOMAIN model_gene_ids
        IN  /\ Len(model_gene_ids) = Cardinality({Resolved(i) : i \in matched})
            /\ Len(model_gene_tokens) = Len(model_gene_ids)
            /\ Len(model_gene_medians) = Len(model_gene_ids)
            /\ \A k \in entries :
                 LET cols == model_gene_ids[k]
                 IN  /\ Len(cols) >= 1
                     /\ \A p, q \in DOMAIN cols : p < q => cols[p] < cols[q]
                     /\ Range(cols) = {i \in matched : Resolved(i) = Resolved(cols[1])}
                     /\ model_gene_tokens[k] = gene_token_dict[Resolved(cols[1])]
                     /\ model_gene_medians[k] = gene_median_dict[Resolved(cols[1])]
            /\ \A k, l \in entries :
                 k < l => model_gene_ids[k][1] < model_gene_ids[l][1]
            /\ \A i \in DOMAIN genes_df :
                 Cardinality({k \in entries : i \in Range(model_gene_ids[k])})
                     = IF i \in matched THEN 1 ELSE 0

\* A load that joined two aliasing columns into the first of two entries.
C10_Witness ==
    /\ pc = "loaded"
    /\ Len(model_gene_ids) = 2
    /\ model_gene_ids[1] = <<1, 3>>
    /\ model_gene_ids[2] = <<2>>
    /\ model_gene_tokens[1] > model_gene_tokens[2]

\* ---- properties of _map_block (SpecMap) ----

\* The count the sparse row stores in column c: the sum of its stored entries
\* of that column, zero when there is none.
ValueAt(row, c) ==
    LET stored == SelectSeq(row, LAMBDA e : e.col = c)
    IN  SumSeq([k \in DOMAIN stored |-> stored[k].data])

\* The sum of the sparse row's counts over the first n of the columns cols.
RECURSIVE SumOverColumns(_, _, _)
SumOverColumns(row, cols, n) ==
    IF n = 0 THEN 0
    ELSE SumOverColumns(row, cols, n - 1) + ValueAt(row, cols[n])

\* C11: the matrix _map_block returns has one row per cell of the block in
\* the block's row order and one column per model gene in entry order; the
\* value at (cell, entry) is the sum of the cell's raw counts over the
\* entry's warehouse columns (the count itself for a single column); and a
\* row stores no zero value, and nothing at all for an entry whose summed
\* count is zero.
C11_MapBlockProjection ==
    pc = "mapped" =>
        /\ block.shape = <<Len(block_cell_joinids),
                           Len(model_gene_ids) + n_background>>
        /\ DOMAIN block.rows = DOMAIN fetched_Xblock.rows
        /\ \A i \in DOMAIN block.rows :
             LET raw == fetched_Xblock.rows[i]
                 row == block.rows[i]
             IN  /\ \A k \in DOMAIN model_gene_ids :
                      LET cols == model_gene_ids[k]
                          total == SumOverColumns(raw, cols, Len(cols))
                      IN  /\ ValueAt(row, k) = total
                          /\ Len(cols) = 1 => ValueAt(row, k) = ValueAt(raw, cols[1])
                          /\ total = 0 => \A m \in DOMAIN row : row[m].col # k
                 /\ \A m \in DOMAIN row :
                      /\ row[m].col \in DOMAIN model_gene_ids
                      /\ row[m].data # 0
                 /\ \A m, n \in DOMAIN row : m < n => row[m].col < row[n].col

\* A block projected through an entry of two columns and an entry of one: the
\* first cell has a count in both aliased columns, the second cell in neither
\* of them but in the single column.
C11_Witness ==
    /\ pc = "mapped"
    /\ Len(model_gene_ids) = 2
    /\ Len(model_gene_ids[1]) = 2
    /\ Len(model_gene_ids[2]) = 1
    /\ block.rows[1] = <<[col |-> 1, data |-> 2 * MaxCount]>>
    /\ block.rows[2] = <<[col |-> 2, data |-> MaxCount]>>
    /\ Len(fetched_Xblock.rows[1]) = 2
    /\ Len(fetched_Xblock.rows[2]) = 1

====
